---------------------------- MODULE Spec2Model ----------------------------
(***************************************************************************)
(* A model of the annotation session of src/annotator.py (class            *)
(* NERAnnotator): the list of input lines, the line cursor, the annotation *)
(* list, the last saved snapshot, the output table of the current line and *)
(* the destination file, driven by the window's handlers (buttons, keys,   *)
(* cell edits, close request).  Handlers run one at a time (Qt's event     *)
(* loop), so each handler is one action.                                   *)
(*                                                                         *)
(* Indices are Python's: current_line, row numbers and annotation_index    *)
(* count from 0; the TLA+ sequences holding the data count from 1.         *)
(***************************************************************************)
EXTENDS Integers, Sequences, FiniteSets, TLC

VARIABLES
    input_file,     \* self.input_file: the lines of the training file
    entities,       \* self.entities: the configured entity tags
    model,          \* self.model is not None
    annotations,    \* self.annotations
    current_line,   \* self.current_line
    latest_save,    \* self.latest_save
    output_table,   \* the rows of self.output_table (QTableWidget)
    output_file,    \* the destination file on disk
    dialog,         \* the dialog the last handler showed ("none" if none)
    raised,         \* the exception the last handler left uncaught ("none" if none)
    status,         \* "running", "exited" (close accepted), "crashed"
    prompt,         \* the question the last handler asked ("none" if none)
    edits,          \* number of cell edits made so far (bounded by MaxEdits)
    script          \* progress through the round-trip scenario (RoundTrip), -1 once left

vars == <<input_file, entities, model, annotations, current_line, latest_save,
          output_table, output_file, dialog, raised, status, prompt, edits, script>>

session == <<annotations, current_line, latest_save, output_table, output_file>>

config == <<input_file, entities, model>>

---------------------------------------------------------------------------
(* Bounds of the model *)

\* most rows the output table is let grow to
MaxRows == 2

\* most cell edits the user makes in one session
MaxEdits == 1

---------------------------------------------------------------------------
(* Qt key codes used by keyPressEvent *)

Key_0 == 48
Key_1 == 49
Key_3 == 51
Key_9 == 57
Key_Backspace == 16777219
Key_Delete == 16777223

None == -1

---------------------------------------------------------------------------
(* Cell texts.  A cell of the table holds text; a text is modelled as the  *)
(* sequence of its characters.  "sup2" stands for the character U+00B2     *)
(* (superscript two): str.isdigit() is true of it, int() rejects it.       *)

DecimalChars == <<"0", "1", "2", "3", "4", "5", "6", "7", "8", "9">>

RECURSIVE str(_)
\* Python's str(n) of an int
str(n) ==
    IF n < 0 THEN <<"-">> \o str(-n)
    ELSE IF n < 10 THEN <<DecimalChars[n + 1]>>
    ELSE str(n \div 10) \o <<DecimalChars[(n % 10) + 1]>>

IsDecimalChar(c) == \E d \in 1..10 : DecimalChars[d] = c

\* Python's str.isdigit(): non-empty, every character a digit character
isdigit(t) ==
    /\ Len(t) > 0
    /\ \A i \in 1..Len(t) : IsDecimalChar(t[i]) \/ t[i] = "sup2"

\* whether Python's int(t) raises ValueError, for a text with isdigit(t)
int_raises(t) == \E i \in 1..Len(t) : ~IsDecimalChar(t[i])

DigitValue(c) == (CHOOSE d \in 1..10 : DecimalChars[d] = c) - 1

RECURSIVE int(_)
\* Python's int(t) of a text of decimal digits
int(t) ==
    IF Len(t) = 0 THEN 0
    ELSE 10 * int(SubSeq(t, 1, Len(t) - 1)) + DigitValue(t[Len(t)])

---------------------------------------------------------------------------
(* The table and the annotation list *)

\* The row add_entity writes.  The Value column (the selected text) is
\* written too but never read back by the program; it is left out.
Row(entity, selection_start, selection_end) ==
    [ent |-> entity, ss |-> str(selection_start), se |-> str(selection_end)]

add_entity_ge(table, entity, selection_start, selection_end) ==
    IF selection_end - selection_start >= 0
    THEN Append(table, Row(entity, selection_start, selection_end))
    ELSE table

\* NERAnnotator.add_entity
add_entity(table, entity, selection_start, selection_end) ==
    IF selection_end - selection_start > 0
    THEN Append(table, Row(entity, selection_start, selection_end))
    ELSE table

annotation_index_none(anns, content) == None

\* NERAnnotator.annotation_index: the first index holding content, or None
annotation_index(anns, content) ==
    IF \E i \in 1..Len(anns) : anns[i].content = content
    THEN (CHOOSE i \in 1..Len(anns) :
            /\ anns[i].content = content
            /\ \A j \in 1..(i - 1) : anns[j].content # content) - 1
    ELSE None

\* the rows record() keeps: "if ent and ss.isdigit() and se.isdigit()"
RowKept(r) == r.ent # "" /\ isdigit(r.ss) /\ isdigit(r.se)

\* record() raises ValueError when int() rejects a kept row's offset
record_raises(table) ==
    \E i \in 1..Len(table) :
        RowKept(table[i]) /\ (int_raises(table[i].ss) \/ int_raises(table[i].se))

RECURSIVE table_entities(_)
\* the list "entities" that the loop of record() builds
table_entities(table) ==
    IF table = <<>> THEN <<>>
    ELSE LET r == Head(table)
         IN (IF RowKept(r) THEN << <<int(r.ss), int(r.se), r.ent>> >> ELSE <<>>)
            \o table_entities(Tail(table))

\* del lst[index], index counted from 0
DelAt(lst, index) ==
    [k \in 1..(Len(lst) - 1) |-> IF k <= index THEN lst[k] ELSE lst[k + 1]]

record_prepend(anns, content, table) ==
    LET ents == table_entities(table)
        annotation == [content |-> content, entities |-> ents]
        index == annotation_index(anns, content)
    IN  IF index = None /\ ents # <<>> THEN <<annotation>> \o anns
        ELSE IF index # None
             THEN IF ents = <<>> THEN DelAt(anns, index)
                  ELSE [anns EXCEPT ![index + 1].entities = ents]
             ELSE anns

record_reappends(anns, content, table) ==
    LET ents == table_entities(table)
        annotation == [content |-> content, entities |-> ents]
        index == annotation_index(anns, content)
    IN  IF index = None /\ ents # <<>> THEN Append(anns, annotation)
        ELSE IF index # None
             THEN IF ents = <<>> THEN DelAt(anns, index)
                  ELSE Append(anns, annotation)
             ELSE anns

record_keeps_empty(anns, content, table) ==
    LET ents == table_entities(table)
        annotation == [content |-> content, entities |-> ents]
        index == annotation_index(anns, content)
    IN  IF index = None /\ ents # <<>> THEN Append(anns, annotation)
        ELSE IF index # None
             THEN [anns EXCEPT ![index + 1].entities = ents]
             ELSE anns

\* NERAnnotator.record, when it does not raise: the new self.annotations
record(anns, content, table) ==
    LET ents == table_entities(table)
        annotation == [content |-> content, entities |-> ents]
        index == annotation_index(anns, content)
    IN  IF index = None /\ ents # <<>> THEN Append(anns, annotation)
        ELSE IF index # None
             THEN IF ents = <<>> THEN DelAt(anns, index)
                  ELSE [anns EXCEPT ![index + 1].entities = ents]
             ELSE anns

RECURSIVE add_entities(_, _)
\* the loop of skip()/undo() that refills the table from a record's entities
add_entities(table, ents) ==
    IF ents = <<>> THEN table
    ELSE add_entities(add_entity(table, Head(ents)[3], Head(ents)[1], Head(ents)[2]),
                      Tail(ents))

\* the table skip()/undo() show for the line with this text
reload(anns, text) ==
    LET index == annotation_index(anns, text)
    IN  IF index # None THEN add_entities(<<>>, anns[index + 1].entities) ELSE <<>>

\* self.content_text.toPlainText(): the text of the line shown
content_text == input_file[current_line + 1]

---------------------------------------------------------------------------
(* Configurations and inputs *)

\* the lines and tags of the round trip of the specification's section 8
RoundTripConfig ==
    [input_file |-> <<"Apple makes iPhones.", "Google makes Android.">>,
     entities |-> <<"ORG">>, model |-> FALSE]

\* a file whose first and last lines have the same text
SharedConfig ==
    [input_file |-> <<"Paris", "Rome", "Paris">>,
     entities |-> <<"LOC">>, model |-> FALSE]

\* a session with an assist model
AssistConfig ==
    [input_file |-> <<"Rome">>, entities |-> <<"LOC", "PER">>, model |-> TRUE]

\* nine tags: every digit key has a tag
NineTagsConfig ==
    [input_file |-> <<"Paris">>,
     entities |-> <<"T1", "T2", "T3", "T4", "T5", "T6", "T7", "T8", "T9">>,
     model |-> FALSE]

\* ten tags: the digit keys are disabled
TenTagsConfig ==
    [input_file |-> <<"Paris">>,
     entities |-> <<"T1", "T2", "T3", "T4", "T5", "T6", "T7", "T8", "T9", "T10">>,
     model |-> FALSE]

Configs == {RoundTripConfig, SharedConfig, AssistConfig, NineTagsConfig, TenTagsConfig}

\* the length of the first word of a line
FirstWord(text) ==
    CASE text = "Apple makes iPhones." -> 5
      [] text = "Google makes Android." -> 6
      [] OTHER -> Len(text)

\* the selections the user makes, <<selectionStart, selectionEnd>> of the text
\* cursor (Qt keeps 0 <= start <= end <= length of the text): the first word
\* of the line, or nothing (a click without a drag)
Selections(text) == {<<0, FirstWord(text)>>, <<2, 2>>}

\* the tags whose buttons the user clicks
Clicked == {entities[1]}

\* what the assist model proposes for the text (doc.ents), each proposal
\* <<start_char, end_char, label_>>: a label that is not configured, the
\* whole line, an empty span, a part of the line
Doc(text) ==
    << <<0, 2, "GPE">>, <<0, Len(text), "LOC">>, <<3, 3, "LOC">>,
       <<2, Len(text), "PER">> >>

\* the edits the user makes to a cell, <<column, new text>>: the tag erased,
\* a start beyond the end, the end erased, the end made a superscript two
CellEdits == {<<"ent", "">>, <<"ss", <<"9">>>>, <<"se", <<>>>>, <<"se", <<"sup2">>>>}

\* the keys the user presses
DeleteKeys == {Key_Delete, Key_Backspace}
OtherKeys == {Key_0, Key_1, Key_3, Key_9}

RECURSIVE Perms(_)
\* the sequences without repetition over a set
Perms(S) ==
    IF S = {} THEN {<<>>}
    ELSE UNION {{<<x>> \o p : p \in Perms(S \ {x})} : x \in S}

\* select.selectedRows(): any set of rows of the table, in any order
SelectedRows(table) == UNION {Perms(S) : S \in SUBSET (0..(Len(table) - 1))}

---------------------------------------------------------------------------
(* The round-trip scenario of the specification's section 8, followed by   *)
(* the variable script: script = k when the session so far is exactly the  *)
(* first k steps of RoundTrip, and -1 otherwise.                           *)

RoundTrip == << <<"add_span", 0, 5, "ORG">>, <<"navigate", "Next">>,
                <<"add_span", 0, 6, "ORG">>, <<"save">> >>

Follow(step) ==
    IF script >= 0 /\ script < Len(RoundTrip)
    THEN IF RoundTrip[script + 1] = step THEN script + 1 ELSE -1
    ELSE -1

---------------------------------------------------------------------------
(* Handlers *)

Init ==
    /\ \E c \in Configs :
        /\ input_file = c.input_file
        /\ entities = c.entities
        /\ model = c.model
    /\ annotations = <<>>
    /\ current_line = 0
    /\ latest_save = <<>>
    /\ output_table = <<>>
    /\ output_file = [state |-> "initial", data |-> <<>>]
    /\ dialog = "none"
    /\ raised = "none"
    /\ status = "running"
    /\ prompt = "none"
    /\ edits = 0
    /\ script = 0

\* An exception no handler catches.  PyQt5 from 5.5 on aborts the process;
\* earlier versions print the traceback and go on.  after is what the
\* process is when it does not abort.
Uncaught(exc, after) ==
    /\ raised' = exc
    /\ dialog' = "none"
    /\ status' \in {after, "crashed"}
    /\ UNCHANGED session

skip_clears_table(cur, table, anns) ==
    IF cur = Len(input_file) - 1
    THEN [current_line |-> cur, output_table |-> <<>>, dialog |-> "Warning"]
    ELSE [current_line |-> cur + 1,
          output_table |-> reload(anns, input_file[cur + 2]),
          dialog |-> "none"]

skip_reloads_line_left(cur, table, anns) ==
    IF cur = Len(input_file) - 1
    THEN [current_line |-> cur, output_table |-> table, dialog |-> "Warning"]
    ELSE [current_line |-> cur + 1,
          output_table |-> reload(anns, input_file[cur + 1]),
          dialog |-> "none"]

\* NERAnnotator.skip: the new current_line, the rows of the table and the
\* dialog shown
skip(cur, table, anns) ==
    IF cur = Len(input_file) - 1
    THEN [current_line |-> cur, output_table |-> table, dialog |-> "Warning"]
    ELSE [current_line |-> cur + 1,
          output_table |-> reload(anns, input_file[cur + 2]),
          dialog |-> "none"]

undo_unchecked(cur, table, anns) ==
    [current_line |-> cur - 1,
     output_table |-> reload(anns, input_file[IF cur = 0 THEN Len(input_file) ELSE cur]),
     dialog |-> "none"]

\* NERAnnotator.undo
undo(cur, table, anns) ==
    IF cur = 0
    THEN [current_line |-> cur, output_table |-> table, dialog |-> "Warning"]
    ELSE [current_line |-> cur - 1,
          output_table |-> reload(anns, input_file[cur]),
          dialog |-> "none"]

\* json.dumps(self.annotations): an array of objects {"content", "entities"},
\* each entity an array [start, end, label]
json_dumps(anns) ==
    [i \in 1..Len(anns) |->
        [content |-> anns[i].content,
         entities |-> [k \in 1..Len(anns[i].entities) |->
                          <<anns[i].entities[k][1], anns[i].entities[k][2],
                            anns[i].entities[k][3]>>]]]

\* the file after open(.., 'w') succeeded and write() did not complete
Truncated == [state |-> "truncated", data |-> <<>>]

save_forgets(anns) ==
    IF latest_save # anns
    THEN \/ /\ output_file' = [state |-> "written", data |-> json_dumps(anns)]
            /\ latest_save' = latest_save
            /\ dialog' = "Success"
         \/ /\ output_file' \in {output_file, Truncated}
            /\ latest_save' = latest_save
            /\ dialog' = "Error"
    ELSE /\ dialog' = "NoData"
         /\ UNCHANGED <<latest_save, output_file>>

save_marks_failure(anns) ==
    IF latest_save # anns
    THEN \/ /\ output_file' = [state |-> "written", data |-> json_dumps(anns)]
            /\ latest_save' = anns
            /\ dialog' = "Success"
         \/ /\ output_file' \in {output_file, Truncated}
            /\ latest_save' = anns
            /\ dialog' = "Error"
    ELSE /\ dialog' = "NoData"
         /\ UNCHANGED <<latest_save, output_file>>

save_writes_snapshot(anns) ==
    IF latest_save # anns
    THEN \/ /\ output_file' = [state |-> "written", data |-> json_dumps(latest_save)]
            /\ latest_save' = anns
            /\ dialog' = "Success"
         \/ /\ output_file' \in {output_file, Truncated}
            /\ latest_save' = latest_save
            /\ dialog' = "Error"
    ELSE /\ dialog' = "NoData"
         /\ UNCHANGED <<latest_save, output_file>>

\* NERAnnotator.save, with anns the value of self.annotations.  The write
\* fails in open() (the file is left as it was) or in write() (the file was
\* truncated by open).
save(anns) ==
    IF latest_save # anns
    THEN \/ /\ output_file' = [state |-> "written", data |-> json_dumps(anns)]
            /\ latest_save' = anns
            /\ dialog' = "Success"
         \/ /\ output_file' \in {output_file, Truncated}
            /\ latest_save' = latest_save
            /\ dialog' = "Error"
    ELSE /\ dialog' = "NoData"
         /\ UNCHANGED <<latest_save, output_file>>

\* NERAnnotator.next, the handler of next_button
NextButton ==
    /\ status = "running"
    /\ IF record_raises(output_table)
       THEN Uncaught("ValueError", "running")
       ELSE LET anns == record(annotations, content_text, output_table)
                r == skip(current_line, output_table, anns)
            IN  /\ annotations' = anns
                /\ current_line' = r.current_line
                /\ output_table' = r.output_table
                /\ dialog' = r.dialog
                /\ raised' = "none"
                /\ status' = "running"
                /\ UNCHANGED <<latest_save, output_file>>
    /\ script' = IF raised' = "none" /\ dialog' = "none"
                 THEN Follow(<<"navigate", "Next">>) ELSE -1
    /\ prompt' = "none"
    /\ UNCHANGED <<config, edits>>

\* NERAnnotator.prev, the handler of prev_button
PrevButton ==
    /\ status = "running"
    /\ IF record_raises(output_table)
       THEN Uncaught("ValueError", "running")
       ELSE LET anns == record(annotations, content_text, output_table)
                r == undo(current_line, output_table, anns)
            IN  /\ annotations' = anns
                /\ current_line' = r.current_line
                /\ output_table' = r.output_table
                /\ dialog' = r.dialog
                /\ raised' = "none"
                /\ status' = "running"
                /\ UNCHANGED <<latest_save, output_file>>
    /\ script' = -1
    /\ prompt' = "none"
    /\ UNCHANGED <<config, edits>>

\* NERAnnotator.skip, as the handler of skip_button
SkipButton ==
    /\ status = "running"
    /\ LET r == skip(current_line, output_table, annotations)
       IN  /\ current_line' = r.current_line
           /\ output_table' = r.output_table
           /\ dialog' = r.dialog
    /\ raised' = "none"
    /\ script' = -1
    /\ prompt' = "none"
    /\ UNCHANGED <<config, annotations, latest_save, output_file, status, edits>>

\* NERAnnotator.stop, the handler of save_button
SaveButton ==
    /\ status = "running"
    /\ IF record_raises(output_table)
       THEN Uncaught("ValueError", "running")
       ELSE LET anns == record(annotations, content_text, output_table)
            IN  /\ annotations' = anns
                /\ save(anns)
                /\ raised' = "none"
                /\ UNCHANGED <<current_line, output_table, status>>
    /\ script' = IF dialog' = "Success" THEN Follow(<<"save">>) ELSE -1
    /\ prompt' = "none"
    /\ UNCHANGED <<config, edits>>

RECURSIVE classify_any_label(_, _)
classify_any_label(table, ents) ==
    IF ents = <<>> THEN table
    ELSE classify_any_label(add_entity(table, Head(ents)[3], Head(ents)[1], Head(ents)[2]),
                            Tail(ents))

RECURSIVE classify(_, _)
\* the loop of NERAnnotator.classify over doc.ents
classify(table, ents) ==
    IF ents = <<>> THEN table
    ELSE LET ent == Head(ents)
         IN  classify(IF \E k \in 1..Len(entities) : entities[k] = ent[3]
                      THEN add_entity(table, ent[3], ent[1], ent[2])
                      ELSE table,
                      Tail(ents))

\* NERAnnotator.classify, the handler of classify_button, which exists only
\* with a model; doc is what the model returns for the text shown
ClassifyButton(doc) ==
    /\ status = "running"
    /\ model
    /\ Len(classify(output_table, doc)) <= MaxRows
    /\ output_table' = classify(output_table, doc)
    /\ dialog' = "none"
    /\ raised' = "none"
    /\ script' = -1
    /\ prompt' = "none"
    /\ UNCHANGED <<config, annotations, current_line, latest_save, output_file,
                   status, edits>>

\* NERAnnotator.add_selected_entity: the table with the selection added
add_selected_entity(table, entity, sel) ==
    add_entity(table, entity, sel[1], sel[2])

\* a click on the button of a tag, with the text cursor's selection sel
EntityButton(entity, sel) ==
    /\ status = "running"
    /\ Len(add_selected_entity(output_table, entity, sel)) <= MaxRows
    /\ output_table' = add_selected_entity(output_table, entity, sel)
    /\ dialog' = "none"
    /\ raised' = "none"
    /\ script' = Follow(<<"add_span", sel[1], sel[2], entity>>)
    /\ prompt' = "none"
    /\ UNCHANGED <<config, annotations, current_line, latest_save, output_file,
                   status, edits>>

\* QTableWidget.removeRow(row): nothing happens for a row the table has not
removeRow(table, row) ==
    IF 0 <= row /\ row < Len(table) THEN DelAt(table, row) ELSE table

RECURSIVE remove_selected(_, _)
\* "for index in select.selectedRows(): removeRow(index.row())": rows holds
\* the row numbers as they were when selectedRows() was called
remove_selected(table, rows) ==
    IF rows = <<>> THEN table
    ELSE remove_selected(removeRow(table, Head(rows)), Tail(rows))

\* NERAnnotator.keyPressEvent with the key pressed, the text cursor's
\* selection and the selected rows of the table
keyPressEvent(key, sel, rows) ==
    /\ status = "running"
    /\ IF key \in {Key_Delete, Key_Backspace}
       THEN /\ output_table' = remove_selected(output_table, rows)
            /\ raised' = "none"
            /\ UNCHANGED status
       ELSE IF key \in Key_1..(Key_9 - 1) /\ Len(entities) < 10
       THEN LET index == key - 48
            IN  IF index - 1 < Len(entities)
                THEN /\ Len(add_selected_entity(output_table, entities[index], sel))
                           <= MaxRows
                     /\ output_table' =
                           add_selected_entity(output_table, entities[index], sel)
                     /\ raised' = "none"
                     /\ UNCHANGED status
                ELSE /\ raised' = "IndexError"
                     /\ status' \in {"running", "crashed"}
                     /\ UNCHANGED output_table
       ELSE /\ raised' = "none"
            /\ UNCHANGED <<output_table, status>>
    /\ dialog' = "none"
    /\ script' = -1
    /\ prompt' = "none"
    /\ UNCHANGED <<config, annotations, current_line, latest_save, output_file, edits>>

\* The user edits a cell of the table (the table's items are editable, Qt's
\* default): column col of row i (from 0) gets the text txt
EditCell(i, col, txt) ==
    /\ status = "running"
    /\ edits < MaxEdits
    /\ i < Len(output_table)
    /\ output_table' = [output_table EXCEPT ![i + 1][col] = txt]
    /\ edits' = edits + 1
    /\ dialog' = "none"
    /\ raised' = "none"
    /\ script' = -1
    /\ prompt' = "none"
    /\ UNCHANGED <<config, annotations, current_line, latest_save, output_file, status>>

\* NERAnnotator.closeEvent with the user's reply to the question it asks:
\* 'Save before exit' (Yes, No, Cancel) or 'Exit' (Yes, No).  A close event
\* is accepted unless the handler ignores it.
closeEvent(reply) ==
    /\ status = "running"
    /\ IF record_raises(output_table)
       THEN Uncaught("ValueError", "exited") /\ prompt' = "none"
       ELSE LET anns == record(annotations, content_text, output_table)
            IN  /\ annotations' = anns
                /\ raised' = "none"
                /\ UNCHANGED <<current_line, output_table>>
                /\ IF latest_save # anns
                   THEN /\ prompt' = "Save before exit"
                        /\ CASE reply = "Yes" -> save(anns) /\ status' = "exited"
                             [] reply = "Cancel" ->
                                   /\ status' = "running"
                                   /\ dialog' = "none"
                                   /\ UNCHANGED <<latest_save, output_file>>
                             [] OTHER ->
                                   /\ status' = "exited"
                                   /\ dialog' = "none"
                                   /\ UNCHANGED <<latest_save, output_file>>
                   ELSE /\ prompt' = "Exit"
                        /\ reply \in {"Yes", "No"}
                        /\ status' = IF reply = "Yes" THEN "exited" ELSE "running"
                        /\ dialog' = "none"
                        /\ UNCHANGED <<latest_save, output_file>>
    /\ script' = -1
    /\ UNCHANGED <<config, edits>>

Next ==
    \/ NextButton
    \/ PrevButton
    \/ SkipButton
    \/ SaveButton
    \/ ClassifyButton(Doc(content_text))
    \/ \E entity \in Clicked, sel \in Selections(content_text) :
          EntityButton(entity, sel)
    \/ \E key \in DeleteKeys, rows \in SelectedRows(output_table) :
          keyPressEvent(key, <<0, 0>>, rows)
    \/ \E key \in OtherKeys, sel \in Selections(content_text) :
          keyPressEvent(key, sel, <<>>)
    \/ \E i \in 0..(MaxRows - 1), e \in CellEdits : EditCell(i, e[1], e[2])
    \/ \E reply \in {"Yes", "No", "Cancel"} : closeEvent(reply)

Spec == Init /\ [][Next]_vars

---------------------------------------------------------------------------
(* Properties *)

\* the step is a handler that commits the current line (calls record())
Commits == NextButton \/ PrevButton \/ SaveButton
              \/ \E reply \in {"Yes", "No", "Cancel"} : closeEvent(reply)

\* the annotation list has a record with this content
HasRecord(anns, content) == \E i \in 1..Len(anns) : anns[i].content = content

\* C1: after any sequence of handlers, over any input lines (also lines with
\* the same text), no two records of the annotation list have equal content.
C1_UniqueContent ==
    \A i, j \in 1..Len(annotations) :
        i # j => annotations[i].content # annotations[j].content

\* a line whose text an earlier line has too was committed with rows while
\* the record of that text and a record of another line exist
C1_Witness ==
    /\ input_file = SharedConfig.input_file
    /\ current_line = 2
    /\ dialog = "Success"
    /\ Len(output_table) = 2
    /\ Len(annotations) = 2
    /\ HasRecord(annotations, "Paris")

\* the step is navigate(Next) at the last line or navigate(Previous) at line 0
AtBoundary ==
    \/ current_line = Len(input_file) - 1 /\ NextButton
    \/ current_line = 0 /\ PrevButton

C3_Original ==
    [][(dialog \in {"Success", "Error", "NoData"} /\ SaveButton) =>
          (dialog' = "NoData" /\ UNCHANGED output_file)]_vars

\* C3 amended: a save right after a save that succeeded or reported NoChanges
\* reports NoChanges and writes nothing; right after a save whose write failed
\* it attempts the write again.
C3_SecondSave ==
    [][(dialog \in {"Success", "Error", "NoData"} /\ SaveButton) =>
          IF dialog = "Error"
          THEN dialog' \in {"Success", "Error"}
          ELSE dialog' = "NoData"
               /\ UNCHANGED <<output_file, annotations, latest_save>>]_vars

\* a save reported NoChanges with an earlier save's data on disk
C3_Witness ==
    /\ dialog = "NoData"
    /\ status = "running"
    /\ output_file.state = "written"
    /\ latest_save # <<>>

\* C4: when the write of save fails, the failure is reported, annotations is
\* what the commit made it, last_saved_snapshot is unchanged and still differs
\* from annotations, so that the next save does not report NoChanges.
C4_FailedWrite ==
    /\ [][(dialog' = "Error" /\ (SaveButton \/ closeEvent("Yes"))) =>
            /\ ~record_raises(output_table)
            /\ annotations' = record(annotations, content_text, output_table)
            /\ latest_save' = latest_save
            /\ latest_save' # annotations']_vars
    /\ [][(dialog = "Error" /\ SaveButton) =>
            /\ dialog' \in {"Success", "Error"}
            /\ annotations' = annotations]_vars

\* a save failed after open() had truncated a file written before, and the
\* session goes on with unsaved annotations
C4_Witness ==
    /\ dialog = "Error"
    /\ status = "running"
    /\ output_file.state = "truncated"
    /\ latest_save # <<>>
    /\ annotations # latest_save

\* what the round trip of the specification's section 8 writes
RoundTripOutput ==
    << [content |-> "Apple makes iPhones.", entities |-> << <<0, 5, "ORG">> >>],
       [content |-> "Google makes Android.", entities |-> << <<0, 6, "ORG">> >>] >>

\* C5: the round trip add_span(0,5,ORG), navigate(Next), add_span(0,6,ORG),
\* save on the two lines writes the two records in input order; and whenever
\* a line without a record is committed with at least one span, its record is
\* appended at the end of the annotation list.
C5_RoundTrip ==
    /\ [](script = Len(RoundTrip) =>
            /\ output_file = [state |-> "written", data |-> RoundTripOutput]
            /\ annotations = RoundTripOutput)
    /\ [][(status = "running" /\ ~record_raises(output_table)
             /\ ~HasRecord(annotations, content_text)
             /\ table_entities(output_table) # <<>>
             /\ Commits) =>
            annotations' = Append(annotations,
                                  [content |-> content_text,
                                   entities |-> table_entities(output_table)])]_vars

\* the round trip has just been made
C5_Witness ==
    /\ script = Len(RoundTrip)
    /\ input_file = RoundTripConfig.input_file
    /\ dialog = "Success"

\* the selections and offsets add_entity is tried on
Offsets == {0, 2, 5, 9}

\* C6: add_span(s, e, label) with e <= s changes nothing; with e > s it
\* appends the one row (s, e, label) after the rows of working_table, which it
\* leaves as they are, whatever they are; cursor, annotations and
\* last_saved_snapshot are not changed by it.
C6_AddSpan ==
    /\ [](\A s \in Offsets, e \in Offsets, k \in 1..Len(entities) :
            LET t == add_entity(output_table, entities[k], s, e)
            IN  IF e <= s THEN t = output_table
                ELSE /\ Len(t) = Len(output_table) + 1
                     /\ SubSeq(t, 1, Len(output_table)) = output_table
                     /\ t[Len(t)].ent = entities[k]
                     /\ isdigit(t[Len(t)].ss) /\ int(t[Len(t)].ss) = s
                     /\ isdigit(t[Len(t)].se) /\ int(t[Len(t)].se) = e)
    /\ [][\A entity \in Clicked, sel \in Selections(content_text) :
            EntityButton(entity, sel) =>
                /\ UNCHANGED <<current_line, annotations, latest_save>>
                /\ IF sel[2] <= sel[1] THEN UNCHANGED output_table
                   ELSE /\ Len(output_table') = Len(output_table) + 1
                        /\ SubSeq(output_table', 1, Len(output_table)) = output_table
                        /\ table_entities(<<output_table'[Len(output_table')]>>)
                              = << <<sel[1], sel[2], entity>> >>]_vars

\* the table holds the same row twice: a span was added to a table that held
\* an identical row
C6_Witness ==
    /\ Len(output_table) = 2
    /\ output_table[1] = output_table[2]
    /\ output_table[1] = Row(entities[1], 0, FirstWord(content_text))

\* C7: committing the same working_table twice in a row leaves annotations
\* after the second commit as after the first; committing an empty
\* working_table removes the record of the line, and committing it again
\* changes nothing.
C7_CommitIdempotent ==
    (status = "running" /\ ~record_raises(output_table)) =>
        LET once == record(annotations, content_text, output_table)
            emptied == record(annotations, content_text, <<>>)
        IN  /\ record(once, content_text, output_table) = once
            /\ ~HasRecord(emptied, content_text)
            /\ record(emptied, content_text, <<>>) = emptied

\* the line shown has a record of two spans, another line has a record too,
\* and the table has been emptied
C7_Witness ==
    /\ status = "running"
    /\ output_table = <<>>
    /\ Len(annotations) = 2
    /\ HasRecord(annotations, content_text)
    /\ \E i \in 1..2 : /\ annotations[i].content = content_text
                       /\ Len(annotations[i].entities) = 2

\* C8: with at least N and fewer than 10 tags, digit key N adds the current
\* selection labelled with the Nth tag; with 10 or more tags no digit key
\* changes working_table.
C8_DigitKeys ==
    [][\A key \in OtherKeys, sel \in Selections(content_text) :
          (key \in Key_1..Key_9 /\ keyPressEvent(key, sel, <<>>)) =>
              LET N == key - Key_0
              IN  /\ (N <= Len(entities) /\ Len(entities) < 10) =>
                        output_table' =
                            add_selected_entity(output_table, entities[N], sel)
                  /\ Len(entities) >= 10 => UNCHANGED output_table]_vars

\* the rows of table whose numbers (from 0) are not in S, in their order
Without(table, S) ==
    LET kept == {i \in 1..Len(table) : (i - 1) \notin S}
    IN  [k \in 1..Cardinality(kept) |->
            table[CHOOSE i \in kept : Cardinality({j \in kept : j < i}) = k - 1]]

\* C9: delete or backspace with the rows S selected, in any order, leaves
\* working_table with exactly the rows of S removed and the others in their
\* order.
C9_DeleteSelected ==
    [][\A key \in DeleteKeys, rows \in SelectedRows(output_table) :
          keyPressEvent(key, <<0, 0>>, rows) =>
              output_table' =
                  Without(output_table, {rows[k] : k \in 1..Len(rows)})]_vars

\* the line with this number has the text of another line
HasTwin(j) ==
    \E i \in 0..(Len(input_file) - 1) : i # j /\ input_file[i + 1] = input_file[j + 1]

\* the entities of the record with this content
RecordOf(anns, content) == anns[annotation_index(anns, content) + 1].entities

\* C10: records are keyed by line text: on arriving at a line whose text
\* another line has too, working_table shows the spans of the one record of
\* that text, committed at either line; and committing a changed or emptied
\* working_table there replaces or removes that one record.
C10_SharedRecord ==
    /\ [][(status = "running" /\ current_line' # current_line
             /\ HasTwin(current_line')
             /\ HasRecord(annotations', input_file[current_line' + 1])) =>
            table_entities(output_table') =
                RecordOf(annotations', input_file[current_line' + 1])]_vars
    /\ [][(status = "running" /\ HasTwin(current_line)
             /\ ~record_raises(output_table) /\ Commits) =>
            /\ Cardinality({i \in 1..Len(annotations') :
                              annotations'[i].content = content_text})
                  = IF table_entities(output_table) = <<>> THEN 0 ELSE 1
            /\ table_entities(output_table) # <<>> =>
                  RecordOf(annotations', content_text) = table_entities(output_table)]_vars

---------------------------------------------------------------------------
(* The working table and the record of the line shown *)

\* the rows that show these entities, one row per entity
RowsOf(ents) == [k \in 1..Len(ents) |-> Row(ents[k][3], ents[k][1], ents[k][2])]

\* the entities whose end lies after their start, in their order
Shown(ents) ==
    LET Proper(e) == e[2] > e[1]
    IN  SelectSeq(ents, Proper)

---------------------------------------------------------------------------
(* The offsets of the stored spans *)

\* C12: every span stored in annotations satisfies
\* 0 <= start < end <= length of the content of its record.
C12_OffsetInvariant ==
    \A i \in 1..Len(annotations) :
        \A k \in 1..Len(annotations[i].entities) :
            LET e == annotations[i].entities[k]
            IN  0 <= e[1] /\ e[1] < e[2] /\ e[2] <= Len(annotations[i].content)

---------------------------------------------------------------------------
(* The cursor *)

\* C13: in every reachable state current_line is the index of a line of the
\* input file, 0 <= current_line < number of lines, whatever next, previous
\* and skip were pressed.
C13_CursorInRange ==
    0 <= current_line /\ current_line < Len(input_file)

\* C13: the cursor went to the last of several lines and a further next or
\* skip was refused there
C13_Witness ==
    /\ Len(input_file) > 1
    /\ current_line = Len(input_file) - 1
    /\ dialog = "Warning"

---------------------------------------------------------------------------
(* Closing the window *)

\* the replies to the questions closeEvent asks
Replies == {"Yes", "No", "Cancel"}

\* C14: a close request commits the line shown, then asks 'Save before exit'
\* (yes, no, cancel) exactly when the committed annotations differ from
\* latest_save and 'Exit' (yes, no) otherwise; on cancel, and on no to
\* 'Exit', the session keeps running with current_line, output_table and
\* latest_save as they were.
C14_CloseRequest ==
    [][\A reply \in Replies :
          closeEvent(reply) =>
             /\ prompt' = IF annotations' # latest_save
                          THEN "Save before exit" ELSE "Exit"
             /\ (reply = "Cancel" \/ (prompt' = "Exit" /\ reply = "No")) =>
                   /\ status' = "running"
                   /\ UNCHANGED <<current_line, output_table, latest_save>>]_vars

---------------------------------------------------------------------------
(* Committing the line shown *)

\* what every handler that commits and returns does next: it moves the
\* cursor, shows a dialog or asks a question
Answered == current_line' # current_line \/ dialog' # "none" \/ prompt' # "none"

---------------------------------------------------------------------------
(* Navigating *)

\* C16: a next or previous that moves the cursor commits the table of the
\* line left, moves the cursor by exactly one, and sets the table to the
\* entities, in stored order, of the record whose content is the text of the
\* new line, or to the empty table when there is no such record.
C16_Navigate ==
    [][(status = "running" /\ ~record_raises(output_table)
           /\ current_line' # current_line /\ (NextButton \/ PrevButton)) =>
          /\ annotations' = record(annotations, content_text, output_table)
          /\ \/ NextButton /\ current_line' = current_line + 1
             \/ PrevButton /\ current_line' = current_line - 1
          /\ output_table' = IF HasRecord(annotations', content_text')
                             THEN RowsOf(RecordOf(annotations', content_text'))
                             ELSE <<>>]_vars

---------------------------------------------------------------------------
(* The snapshot of the last save *)

\* C17: a save whose write succeeds leaves latest_save equal to annotations
\* and the output file holding exactly these annotations; no other step
\* changes latest_save, whatever later commits do to annotations, so that
\* latest_save stays what was last written successfully (nothing before the
\* first successful write) and the file, while it holds a complete write,
\* holds latest_save.
C17_Snapshot ==
    /\ [](/\ output_file.state = "initial" => latest_save = <<>>
          /\ output_file.state = "written" =>
                output_file.data = json_dumps(latest_save))
    /\ [][dialog' = "Success" =>
            /\ latest_save' = annotations'
            /\ output_file' = [state |-> "written", data |-> json_dumps(annotations')]]_vars
    /\ [][latest_save' # latest_save => dialog' = "Success"]_vars

\* C17: after a successful save a later commit changed annotations and the
\* snapshot and the file still hold what was written
C17_Witness ==
    /\ dialog = "none"
    /\ latest_save # <<>>
    /\ annotations # latest_save
    /\ annotations # <<>>
    /\ output_file = [state |-> "written", data |-> json_dumps(latest_save)]

---------------------------------------------------------------------------
(* The proposals of the model *)

\* the proposals that become rows: label among the tags, end after start
Accepted(doc) ==
    LET Ok(ent) == ent[3] \in {entities[k] : k \in 1..Len(entities)} /\ ent[2] > ent[1]
    IN  SelectSeq(doc, Ok)

\* C18: classify appends to the table, in the order of the proposals, one
\* row for each proposal whose label is a tag and whose end exceeds its
\* start, and no row for another proposal; the rows the table had stay as
\* they were, and the Classify button leaves annotations (and the cursor,
\* the snapshot and the file) as they are.
C18_Classify ==
    /\ [](model => classify(output_table, Doc(content_text))
                      = output_table \o RowsOf(Accepted(Doc(content_text))))
    /\ [][(model /\ ClassifyButton(Doc(content_text))) =>
            /\ output_table' = output_table \o RowsOf(Accepted(Doc(content_text)))
            /\ UNCHANGED <<annotations, current_line, latest_save, output_file>>]_vars

\* C18: the table holds the two rows of the proposals accepted out of four
C18_Witness ==
    /\ model
    /\ Len(Accepted(Doc(content_text))) = 2
    /\ Len(Doc(content_text)) = 4
    /\ output_table = RowsOf(Accepted(Doc(content_text)))

---------------------------------------------------------------------------
(* Leaving through the save of the close prompt *)

\* C19: whenever the session exits on the answer yes to 'Save before exit',
\* annotations equals latest_save at the exit, also when the write failed.
C19_SaveThenExit ==
    [][(prompt' = "Save before exit" /\ status' = "exited" /\ closeEvent("Yes")) =>
          annotations' = latest_save']_vars

---------------------------------------------------------------------------
(* Skipping a line *)

\* C20: skip never changes annotations nor latest_save; at the last line it
\* changes nothing of the session; elsewhere it adds one to the cursor and
\* replaces the table, committed or not, by the entities of the record whose
\* content is the text of the new line, the empty table if there is none.
C20_SkipFrame ==
    [][(status = "running" /\ SkipButton) =>
          /\ UNCHANGED <<annotations, latest_save>>
          /\ IF current_line = Len(input_file) - 1
             THEN UNCHANGED session
             ELSE /\ current_line' = current_line + 1
                  /\ output_table' = IF HasRecord(annotations, content_text')
                                     THEN RowsOf(RecordOf(annotations, content_text'))
                                     ELSE <<>>]_vars

---------------------------------------------------------------------------
(* A digit key without a tag *)

\* C21: pressing digit key N of 1..9 with fewer than N tags configured
\* raises no error and leaves output_table, current_line, annotations and
\* latest_save as they are, the session running on.
C21_DigitKeyWithoutTag ==
    [][\A key \in OtherKeys, sel \in Selections(content_text) :
          (key \in Key_1..Key_9 /\ key - Key_0 > Len(entities)
                /\ keyPressEvent(key, sel, <<>>)) =>
             /\ raised' = "none"
             /\ status' = "running"
             /\ UNCHANGED <<output_table, current_line, annotations, latest_save>>]_vars

===========================================================================
